---------------------------- MODULE Spec2Model ----------------------------
(***************************************************************************)
(* A model of cdk_project/cdk_project_stack.py: the CdkProjectStack        *)
(* constructor as a sequence of declaration steps building a construct     *)
(* tree, the rendering of that tree into a template, its deployment, and   *)
(* the two schedules it declares acting on the database instance once they *)
(* run.                                                                    *)
(*                                                                         *)
(* Text is a sequence of one-character strings.  A string attribute of a   *)
(* construct (an ARN, an identifier, an address) is not known while the    *)
(* constructor runs: reading it yields a marker string that stands for the *)
(* value, and rendering replaces every marker by a reference to the        *)
(* resource it came from.                                                  *)
(***************************************************************************)
EXTENDS Integers, Sequences, FiniteSets, TLC

VARIABLES
    construct_id,   \* the constructor's argument
    pc,             \* index in Program of the next declaration step
    phase,          \* "constructing", "failed", "synthesized", "deployed"
    locals,         \* the Python local names bound so far
    tree,           \* construct name -> its declaration
    order,          \* the construct names in the order they were declared
    tokenMap,       \* marker string -> the attribute it stands for
    nextToken,      \* the process-wide counter the markers are numbered from
    synthCount,     \* how many times the declaration has been evaluated
    prevTemplate,   \* the templates rendered by the earlier evaluations
    deployed,       \* the provisioned resources, every reference resolved
    clock,          \* minute of the week in UTC, 0 = Monday 00:00
    dbState,        \* "absent", "running" or "stopped"
    fired,          \* the schedules that fired in the current minute
    log             \* what the scheduler has observed since deployment

vars == <<construct_id, pc, phase, locals, tree, order, tokenMap, nextToken,
          synthCount, prevTemplate, deployed, clock, dbState, fired, log>>

-----------------------------------------------------------------------------
(* Bounds and inputs *)

\* the number of times the declaration is evaluated in one process
MaxSynth == 2

\* the construct ids the stack may be instantiated under
ConstructIds == {"CdkProjectStack", "AutomationLab"}

\* the identifiers the provider may give the database instance
DbIdentifiers == { <<"d", "b">>, <<"l", "a", "b", "-", "1">> }

-----------------------------------------------------------------------------
(* Python f-strings *)

\* f"...": "{{" and "}}" give one brace, a replacement field gives the text
\* of its value (env maps each replacement field to that text)
RECURSIVE FormatFString(_, _)
FormatFString(src, env) ==
    IF src = <<>> THEN <<>>
    ELSE IF Head(src) \in DOMAIN env
         THEN <<env[Head(src)]>> \o FormatFString(Tail(src), env)
    ELSE IF Len(src) >= 2 /\ Head(src) \in {"{", "}"} /\ src[2] = Head(src)
         THEN <<Head(src)>> \o FormatFString(Tail(Tail(src)), env)
    ELSE <<Head(src)>> \o FormatFString(Tail(src), env)

-----------------------------------------------------------------------------
(* JSON, as the scheduler reads a target's input: an object of string      *)
(* members.  The result is the sequence of <<key, value>> members, or not  *)
(* ok when the text is no such object.                                     *)

RECURSIVE JsonScan(_, _, _, _, _, _)
JsonScan(cs, i, mode, key, cur, pairs) ==
    IF i > Len(cs) THEN [ok |-> mode = "end", pairs |-> pairs]
    ELSE
    LET c == cs[i]
        bad == [ok |-> FALSE, pairs |-> <<>>]
        go(m, k, u, p) == JsonScan(cs, i + 1, m, k, u, p)
        skip == go(mode, key, cur, pairs)
    IN CASE mode = "start" ->
              IF c = " " THEN skip
              ELSE IF c = "{" THEN go("first", key, cur, pairs) ELSE bad
         [] mode = "first" ->
              IF c = " " THEN skip
              ELSE IF c = "\"" THEN go("inkey", key, <<>>, pairs)
              ELSE IF c = "}" THEN go("end", key, cur, pairs) ELSE bad
         [] mode = "key" ->
              IF c = " " THEN skip
              ELSE IF c = "\"" THEN go("inkey", key, <<>>, pairs) ELSE bad
         [] mode = "inkey" ->
              IF c = "\"" THEN go("colon", cur, <<>>, pairs)
              ELSE IF c = "\\"
                   THEN IF i < Len(cs)
                        THEN JsonScan(cs, i + 2, mode, key, Append(cur, cs[i + 1]), pairs)
                        ELSE bad
              ELSE go(mode, key, Append(cur, c), pairs)
         [] mode = "colon" ->
              IF c = " " THEN skip
              ELSE IF c = ":" THEN go("value", key, cur, pairs) ELSE bad
         [] mode = "value" ->
              IF c = " " THEN skip
              ELSE IF c = "\"" THEN go("invalue", key, <<>>, pairs) ELSE bad
         [] mode = "invalue" ->
              IF c = "\"" THEN go("next", key, <<>>, Append(pairs, <<key, cur>>))
              ELSE IF c = "\\"
                   THEN IF i < Len(cs)
                        THEN JsonScan(cs, i + 2, mode, key, Append(cur, cs[i + 1]), pairs)
                        ELSE bad
              ELSE go(mode, key, Append(cur, c), pairs)
         [] mode = "next" ->
              IF c = " " THEN skip
              ELSE IF c = "," THEN go("key", key, cur, pairs)
              ELSE IF c = "}" THEN go("end", key, cur, pairs) ELSE bad
         [] OTHER ->
              IF c = " " THEN skip ELSE bad

JsonParse(cs) == JsonScan(cs, 1, "start", <<>>, <<>>, <<>>)

-----------------------------------------------------------------------------
(* Schedule expressions.  cron(minutes hours day-of-month month             *)
(* day-of-week year), each field a sequence of lexemes, evaluated in UTC    *)
(* by the scheduler.                                                        *)

\* the stop time the comment and the description state: cron(0 18 * * ? *)
StopExpression_Evening ==
    << <<"0">>, <<"18">>, <<"*">>, <<"*">>, <<"?">>, <<"*">> >>

\* schedule_expression="cron(30 6 * * ? *)"
StopExpression ==
    << <<"30">>, <<"6">>, <<"*">>, <<"*">>, <<"?">>, <<"*">> >>

\* a start on every day of the week: cron(30 22 * * ? *)
StartExpression_EveryDay ==
    << <<"30">>, <<"22">>, <<"*">>, <<"*">>, <<"?">>, <<"*">> >>

\* schedule_expression="cron(30 22 ? * MON-FRI *)"
StartExpression ==
    << <<"30">>, <<"22">>, <<"?">>, <<"*">>, <<"MON", "-", "FRI">>, <<"*">> >>

DayNames == <<"SUN", "MON", "TUE", "WED", "THU", "FRI", "SAT">>

Wildcards == { <<"*">>, <<"?">> }

\* the number a lexeme of a field denotes: a day name (SUN = 1) or a numeral
CronAtom(s) ==
    IF \E d \in 1..7 : DayNames[d] = s
    THEN CHOOSE d \in 1..7 : DayNames[d] = s
    ELSE CHOOSE n \in 0..59 : ToString(n) = s

\* the values a field admits among lo..hi
CronField(f, lo, hi) ==
    IF f \in Wildcards THEN lo..hi
    ELSE IF Len(f) = 3 /\ f[2] = "-"
         THEN (CronAtom(f[1])..CronAtom(f[3])) \cap (lo..hi)
    ELSE IF Len(f) = 1 THEN {CronAtom(f[1])} \cap (lo..hi)
    ELSE {}

MinutesPerDay == 24 * 60
MinutesPerWeek == 7 * MinutesPerDay

MinuteOf(t) == t % 60
HourOf(t) == (t \div 60) % 24
\* day of the week as the scheduler numbers it: 1 = SUN .. 7 = SAT
DayOfWeekOf(t) == (((t \div MinutesPerDay) + 1) % 7) + 1
\* day of the model's week: 0 = Monday .. 6 = Sunday
DayIndex(t) == t \div MinutesPerDay
TimeOfDay(t) == t % MinutesPerDay

\* whether the expression fires in minute t of the week.  The clock carries
\* no date: an expression fires by its minute, hour and day-of-week fields
\* when its day-of-month, month and year fields admit every date.
CronFires(expr, t) ==
    /\ expr[3] \in Wildcards /\ expr[4] \in Wildcards /\ expr[6] \in Wildcards
    /\ MinuteOf(t) \in CronField(expr[1], 0, 59)
    /\ HourOf(t) \in CronField(expr[2], 0, 23)
    /\ DayOfWeekOf(t) \in CronField(expr[5], 1, 7)

-----------------------------------------------------------------------------
(* The declarations of the constructor *)

\* the marker string standing for the n-th attribute read in this process
TokenString(n) == "${Token[TOKEN." \o ToString(n) \o "]}"

\* the construct each Python local of the constructor is bound to
LocalConstruct ==
    [vpc |-> "Vpc", sg |-> "InstanceSecurityGroup", instance |-> "Ec2Instance",
     rds_sg |-> "RdsSecurityGroup", rds_instance |-> "RdsInstance",
     scheduler_role |-> "SchedulerRole", stop_schedule |-> "StopRdsSchedule",
     start_schedule |-> "StartRdsSchedule"]

\* sg.add_ingress_rule(ec2.Peer.any_ipv4(), ec2.Port.tcp(22), "allow SSH")
SshIngress ==
    [group |-> "InstanceSecurityGroup",
     peer |-> [kind |-> "cidr", of |-> "0.0.0.0/0"],
     port |-> [protocol |-> "tcp", from |-> 22, to |-> 22],
     description |-> "allow SSH"]

\* the rule of the commented-out lines 49-53, enabled
RdsIngress_VpcCidr ==
    [group |-> "RdsSecurityGroup",
     peer |-> [kind |-> "cidr", of |-> "vpc.vpc_cidr_block"],
     port |-> [protocol |-> "tcp", from |-> 5432, to |-> 5432],
     description |-> "Allow connection from within VPC"]

\* rds_sg.add_ingress_rule(sg, ec2.Port.tcp(3306), "Allow MySQL access ...")
RdsIngress ==
    [group |-> "RdsSecurityGroup",
     peer |-> [kind |-> "security_group", of |-> "InstanceSecurityGroup"],
     port |-> [protocol |-> "tcp", from |-> 3306, to |-> 3306],
     description |-> "Allow MySQL access from EC2 instance"]

\* a statement granting the actions on every resource
SchedulerStatement_Wildcard(instance_arn) ==
    [actions |-> { <<"rds", "StartDBInstance">>, <<"rds", "StopDBInstance">> },
     resources |-> <<"*">>]

\* iam.PolicyStatement(actions=[...], resources=[rds_instance.instance_arn])
\* an action "service:Name" is the pair <<service, Name>>
SchedulerStatement(instance_arn) ==
    [actions |-> { <<"rds", "StartDBInstance">>, <<"rds", "StopDBInstance">> },
     resources |-> <<instance_arn>>]

\* iam.ServicePrincipal("scheduler.amazonaws.com")
SchedulerPrincipal == "scheduler.amazonaws.com"

\* the replacement field of the two input f-strings
IdentifierField == "{rds_instance.instance_identifier}"

\* the key spelled as the RDS API spells the parameter
InputFString_ApiCasing ==
    << "{", "{", "\"",
       "D", "B", "I", "n", "s", "t", "a", "n", "c", "e",
       "I", "d", "e", "n", "t", "i", "f", "i", "e", "r",
       "\"", ":", " ", "\"", IdentifierField, "\"", "}", "}" >>

\* f'{{"DbInstanceIdentifier": "{rds_instance.instance_identifier}"}}'
InputFString ==
    << "{", "{", "\"",
       "D", "b", "I", "n", "s", "t", "a", "n", "c", "e",
       "I", "d", "e", "n", "t", "i", "f", "i", "e", "r",
       "\"", ":", " ", "\"", IdentifierField, "\"", "}", "}" >>

\* a target that invokes another action of the same service
StopTargetArn_Reboot ==
    <<"arn", "aws", "scheduler", "", "", "aws-sdk", "rds", "rebootDBInstance">>

\* "arn:aws:scheduler:::aws-sdk:rds:stopDBInstance", split at its colons
StopTargetArn ==
    <<"arn", "aws", "scheduler", "", "", "aws-sdk", "rds", "stopDBInstance">>

\* "arn:aws:scheduler:::aws-sdk:rds:startDBInstance", split at its colons
StartTargetArn ==
    <<"arn", "aws", "scheduler", "", "", "aws-sdk", "rds", "startDBInstance">>

\* a schedule whose description carries a count of the evaluations of the
\* declaration, as a module-level counter would give it
Schedule_Stamped(expression, target_arn, description, tok) ==
    [type |-> "Schedule",
     props |-> [flexible_time_window |-> "OFF",
                schedule_expression |-> expression,
                target |-> [arn |-> target_arn,
                            role_arn |-> tok[1],
                            input |-> FormatFString(InputFString,
                                                    IdentifierField :> tok[2])],
                description |-> description \o " #" \o ToString(synthCount)],
     tags |-> {}]

\* scheduler.CfnSchedule(self, id, flexible_time_window=..., ...)
\* tok: the markers of scheduler_role.role_arn and of
\* rds_instance.instance_identifier
Schedule(expression, target_arn, description, tok) ==
    [type |-> "Schedule",
     props |-> [flexible_time_window |-> "OFF",
                schedule_expression |-> expression,
                target |-> [arn |-> target_arn,
                            role_arn |-> tok[1],
                            input |-> FormatFString(InputFString,
                                                    IdentifierField :> tok[2])],
                description |-> description],
     tags |-> {}]

\* the statements with the stop schedule moved before the role it assumes
Program_Reordered ==
    << "Vpc", "InstanceSecurityGroup", "SshIngress", "Ec2Instance",
       "RdsSecurityGroup", "RdsInstance", "StopRdsSchedule", "SchedulerRole",
       "SchedulerRolePolicy", "target_payload", "StartRdsSchedule",
       "TagEc2", "TagRds", "RdsIngress", "DBEndpoint", "EC2InstancePrivateIP" >>

\* the statements of CdkProjectStack.__init__, in source order
Program ==
    << "Vpc", "InstanceSecurityGroup", "SshIngress", "Ec2Instance",
       "RdsSecurityGroup", "RdsInstance", "SchedulerRole",
       "SchedulerRolePolicy", "target_payload", "StopRdsSchedule",
       "StartRdsSchedule", "TagEc2", "TagRds", "RdsIngress", "DBEndpoint",
       "EC2InstancePrivateIP" >>

\* the string attributes of other constructs a step reads, in order
AttrsRead(name) ==
    CASE name = "SchedulerRolePolicy" ->
           << [of |-> "RdsInstance", attr |-> "instance_arn"] >>
      [] name = "target_payload" ->
           << [of |-> "RdsInstance", attr |-> "instance_identifier"] >>
      [] name \in {"StopRdsSchedule", "StartRdsSchedule"} ->
           << [of |-> "SchedulerRole", attr |-> "role_arn"],
              [of |-> "RdsInstance", attr |-> "instance_identifier"] >>
      [] name = "DBEndpoint" ->
           << [of |-> "RdsInstance", attr |-> "db_instance_endpoint_address"] >>
      [] name = "EC2InstancePrivateIP" ->
           << [of |-> "Ec2Instance", attr |-> "instance_private_ip"] >>
      [] OTHER -> <<>>

\* one step of the constructor: the locals it reads and binds, and what it
\* declares (kind "construct"), tags (kind "tag") or only computes ("local")
Declaration(name, tok) ==
    CASE name = "Vpc" ->
           [kind |-> "construct", reads |-> {}, binds |-> {"vpc"},
            node |-> [type |-> "Vpc", props |-> [max_azs |-> 2], tags |-> {}]]
      [] name = "InstanceSecurityGroup" ->
           [kind |-> "construct", reads |-> {"vpc"}, binds |-> {"sg"},
            node |-> [type |-> "SecurityGroup",
                      props |-> [vpc |-> LocalConstruct.vpc,
                                 description |-> "Allow SSH access",
                                 allow_all_outbound |-> TRUE],
                      tags |-> {}]]
      [] name = "SshIngress" ->
           [kind |-> "construct", reads |-> {"sg"}, binds |-> {},
            node |-> [type |-> "Ingress", props |-> SshIngress, tags |-> {}]]
      [] name = "Ec2Instance" ->
           [kind |-> "construct", reads |-> {"vpc", "sg"}, binds |-> {"instance"},
            node |-> [type |-> "Instance",
                      props |-> [instance_type |-> "t3.micro",
                                 machine_image |-> "latest_amazon_linux2",
                                 vpc |-> LocalConstruct.vpc,
                                 security_groups |-> <<LocalConstruct.sg>>],
                      tags |-> {}]]
      [] name = "RdsSecurityGroup" ->
           [kind |-> "construct", reads |-> {"vpc"}, binds |-> {"rds_sg"},
            node |-> [type |-> "SecurityGroup",
                      props |-> [vpc |-> LocalConstruct.vpc,
                                 description |-> "Allow database access",
                                 allow_all_outbound |-> TRUE],
                      tags |-> {}]]
      [] name = "RdsInstance" ->
           [kind |-> "construct", reads |-> {"vpc", "rds_sg"},
            binds |-> {"rds_instance"},
            node |-> [type |-> "DatabaseInstance",
                      props |-> [engine |-> "mysql", version |-> "8.0.43",
                                 instance_type |-> "t3.micro",
                                 vpc |-> LocalConstruct.vpc,
                                 security_groups |-> <<LocalConstruct.rds_sg>>,
                                 multi_az |-> FALSE, allocated_storage |-> 20,
                                 storage_type |-> "gp2",
                                 deletion_protection |-> FALSE,
                                 removal_policy |-> "destroy"],
                      tags |-> {}]]
      [] name = "SchedulerRole" ->
           [kind |-> "construct", reads |-> {}, binds |-> {"scheduler_role"},
            node |-> [type |-> "Role",
                      props |-> [assumed_by |-> {SchedulerPrincipal}],
                      tags |-> {}]]
      [] name = "SchedulerRolePolicy" ->
           [kind |-> "construct", reads |-> {"scheduler_role", "rds_instance"},
            binds |-> {},
            node |-> [type |-> "Policy",
                      props |-> [role |-> LocalConstruct.scheduler_role,
                                 statements |-> <<SchedulerStatement(tok[1])>>],
                      tags |-> {}]]
      [] name = "target_payload" ->
           [kind |-> "local", reads |-> {"rds_instance"},
            binds |-> {"target_payload"},
            node |-> [type |-> "dict",
                      props |-> [DbInstanceIdentifier |-> tok[1]], tags |-> {}]]
      [] name = "StopRdsSchedule" ->
           [kind |-> "construct", reads |-> {"scheduler_role", "rds_instance"},
            binds |-> {"stop_schedule"},
            node |-> Schedule(StopExpression, StopTargetArn,
                              "Stops RDS instance at 6 PM UTC", tok)]
      [] name = "StartRdsSchedule" ->
           [kind |-> "construct", reads |-> {"scheduler_role", "rds_instance"},
            binds |-> {"start_schedule"},
            node |-> Schedule(StartExpression, StartTargetArn,
                              "Starts RDS instance at 8 AM UTC (Mon-Fri)", tok)]
      [] name = "TagEc2" ->
           [kind |-> "tag", reads |-> {"instance"}, binds |-> {},
            node |-> [type |-> "Tag", props |-> [of |-> LocalConstruct.instance],
                      tags |-> { <<"Name", "cdk-ec2-instance">> }]]
      [] name = "TagRds" ->
           [kind |-> "tag", reads |-> {"rds_instance"}, binds |-> {},
            node |-> [type |-> "Tag", props |-> [of |-> LocalConstruct.rds_instance],
                      tags |-> { <<"Name", "cdk-rds-instance">> }]]
      [] name = "RdsIngress" ->
           [kind |-> "construct", reads |-> {"rds_sg", "sg"}, binds |-> {},
            node |-> [type |-> "Ingress", props |-> RdsIngress, tags |-> {}]]
      [] name = "DBEndpoint" ->
           [kind |-> "construct", reads |-> {"rds_instance"}, binds |-> {},
            node |-> [type |-> "Output", props |-> [value |-> tok[1]], tags |-> {}]]
      [] name = "EC2InstancePrivateIP" ->
           [kind |-> "construct", reads |-> {"instance"}, binds |-> {},
            node |-> [type |-> "Output", props |-> [value |-> tok[1]], tags |-> {}]]

\* the constructs a step refers to: those its locals are bound to
Deps(d) == {LocalConstruct[l] : l \in d.reads}

-----------------------------------------------------------------------------
(* Rendering the construct tree into a template *)

\* the template's name of a construct, derived from its path in the tree
LogicalId(cid, name) == <<cid, name>>

\* the template's expression for an attribute of a construct
Intrinsic(cid, a) ==
    [fn |-> IF a.attr = "instance_identifier" THEN "Ref" ELSE "GetAtt",
     id |-> LogicalId(cid, a.of), attr |-> a.attr]

\* a string property: a marker becomes the expression it stands for
RenderString(s, tm, cid) ==
    IF s \in DOMAIN tm THEN Intrinsic(cid, tm[s]) ELSE [lit |-> <<s>>]

\* a text property: the literal stretches and the expressions of its markers,
\* to be joined at deployment
RECURSIVE RenderText(_, _, _, _)
RenderText(cs, acc, tm, cid) ==
    LET flush == IF acc = <<>> THEN <<>> ELSE <<[lit |-> acc]>>
    IN IF cs = <<>> THEN flush
       ELSE IF Head(cs) \in DOMAIN tm
            THEN flush \o <<Intrinsic(cid, tm[Head(cs)])>>
                       \o RenderText(Tail(cs), <<>>, tm, cid)
       ELSE RenderText(Tail(cs), Append(acc, Head(cs)), tm, cid)

RenderStatement(st, tm, cid) ==
    [actions |-> st.actions,
     resources |-> [i \in 1..Len(st.resources) |->
                        RenderString(st.resources[i], tm, cid)]]

RenderProps(n, tm, cid) ==
    LET p == n.props
        ids(q) == [i \in 1..Len(q) |-> LogicalId(cid, q[i])]
    IN CASE n.type = "SecurityGroup" -> [p EXCEPT !.vpc = LogicalId(cid, @)]
         [] n.type \in {"Instance", "DatabaseInstance"} ->
              [p EXCEPT !.vpc = LogicalId(cid, @), !.security_groups = ids(@)]
         [] n.type = "Ingress" ->
              [p EXCEPT !.group = LogicalId(cid, @),
                        !.peer = IF @.kind = "security_group"
                                 THEN [kind |-> @.kind, of |-> LogicalId(cid, @.of)]
                                 ELSE [kind |-> @.kind, of |-> <<@.of>>]]
         [] n.type = "Policy" ->
              [role |-> LogicalId(cid, p.role),
               statements |-> [i \in 1..Len(p.statements) |->
                                  RenderStatement(p.statements[i], tm, cid)]]
         [] n.type = "Schedule" ->
              [p EXCEPT !.target =
                  [arn |-> @.arn,
                   role_arn |-> RenderString(@.role_arn, tm, cid),
                   input |-> RenderText(@.input, <<>>, tm, cid)]]
         [] n.type = "Output" -> [value |-> RenderString(p.value, tm, cid)]
         [] OTHER -> p

\* the template: logical id -> type, properties, tags and dependencies
Render(t, tm, cid) ==
    [lid \in {LogicalId(cid, name) : name \in DOMAIN t} |->
        LET n == t[lid[2]]
        IN [type |-> n.type,
            props |-> RenderProps(n, tm, cid),
            tags |-> n.tags,
            deps |-> {LogicalId(cid, d) : d \in n.deps}]]

Template == Render(tree, tokenMap, construct_id)

-----------------------------------------------------------------------------
(* The constructor *)

NoFunction == [x \in {} |-> x]

Init ==
    /\ construct_id \in ConstructIds
    /\ pc = 1
    /\ phase = "constructing"
    /\ locals = {}
    /\ tree = NoFunction
    /\ order = <<>>
    /\ tokenMap = NoFunction
    /\ nextToken = 1
    /\ synthCount = 1
    /\ prevTemplate = <<>>
    /\ deployed = NoFunction
    /\ clock = 0
    /\ dbState = "absent"
    /\ fired = {}
    /\ log = NoFunction

runtimeVars == <<deployed, clock, dbState, fired, log>>

\* the next statement of the constructor.  A statement that reads a local
\* not yet bound raises NameError and the constructor ends there.
Step ==
    /\ phase = "constructing"
    /\ pc <= Len(Program)
    /\ LET name == Program[pc]
           attrs == AttrsRead(name)
           tok == [j \in 1..Len(attrs) |-> TokenString(nextToken + j - 1)]
           d == Declaration(name, tok)
           node == [type |-> d.node.type, props |-> d.node.props,
                    tags |-> d.node.tags, deps |-> Deps(d)]
       IN IF d.reads \subseteq locals
          THEN /\ tree' = CASE d.kind = "construct" -> tree @@ (name :> node)
                            [] d.kind = "tag" ->
                                 [tree EXCEPT ![d.node.props.of].tags =
                                                  @ \cup d.node.tags]
                            [] OTHER -> tree
               /\ order' = IF d.kind = "construct" THEN Append(order, name)
                           ELSE order
               /\ locals' = locals \cup d.binds
               /\ tokenMap' = tokenMap @@
                      [m \in {tok[j] : j \in 1..Len(attrs)} |->
                          attrs[CHOOSE j \in 1..Len(attrs) : tok[j] = m]]
               /\ nextToken' = nextToken + Len(attrs)
               /\ pc' = pc + 1
               /\ phase' = IF pc = Len(Program) THEN "synthesized"
                           ELSE "constructing"
          ELSE /\ phase' = "failed"
               /\ UNCHANGED <<tree, order, locals, tokenMap, nextToken, pc>>
    /\ UNCHANGED <<construct_id, synthCount, prevTemplate, runtimeVars>>

\* the unchanged declaration evaluated again, in the same process, with the
\* same scope, construct id and arguments
Resynthesize ==
    /\ phase = "synthesized"
    /\ synthCount < MaxSynth
    /\ prevTemplate' = Append(prevTemplate, Template)
    /\ synthCount' = synthCount + 1
    /\ pc' = 1
    /\ phase' = "constructing"
    /\ locals' = {}
    /\ tree' = NoFunction
    /\ order' = <<>>
    /\ UNCHANGED <<construct_id, tokenMap, nextToken, runtimeVars>>

-----------------------------------------------------------------------------
(* Deployment: the provider creates the template's resources and resolves  *)
(* every expression of the template to the value it stands for.            *)

\* the ARN of the database instance with the given identifier
DbArn(identifier) == [arn |-> <<"rds", "db", identifier>>]

\* the provider's name of a resource: the identifier it gives a database
\* instance, and for any other resource a name made from the logical id
PhysicalId(tpl, lid, dbId) ==
    IF tpl[lid].type = "DatabaseInstance" THEN dbId ELSE <<lid[1], lid[2]>>

\* the value of a rendered string property
Resolve(tpl, v, dbId) ==
    IF "lit" \in DOMAIN v THEN [text |-> v.lit]
    ELSE CASE v.attr = "instance_arn" -> DbArn(PhysicalId(tpl, v.id, dbId))
           [] v.attr = "role_arn" ->
                [arn |-> <<"iam", "role", PhysicalId(tpl, v.id, dbId)>>]
           [] v.attr = "instance_identifier" ->
                [text |-> PhysicalId(tpl, v.id, dbId)]
           [] OTHER -> [att |-> <<v.attr, PhysicalId(tpl, v.id, dbId)>>]

\* the text of a rendered text property, its parts joined
RECURSIVE ResolveText(_, _, _)
ResolveText(tpl, parts, dbId) ==
    IF parts = <<>> THEN <<>>
    ELSE LET r == Resolve(tpl, Head(parts), dbId)
         IN (IF "text" \in DOMAIN r THEN r.text ELSE <<"?">>)
            \o ResolveText(tpl, Tail(parts), dbId)

OfType(tpl, type) == {lid \in DOMAIN tpl : tpl[lid].type = type}

Provision(tpl, dbId) ==
    [databases |->
        [lid \in OfType(tpl, "DatabaseInstance") |->
            [identifier |-> PhysicalId(tpl, lid, dbId),
             arn |-> DbArn(PhysicalId(tpl, lid, dbId)),
             security_groups |-> tpl[lid].props.security_groups]],
     ingress |->
        {tpl[lid].props : lid \in OfType(tpl, "Ingress")},
     roles |->
        [lid \in OfType(tpl, "Role") |->
            [arn |-> [arn |-> <<"iam", "role", PhysicalId(tpl, lid, dbId)>>],
             assumed_by |-> tpl[lid].props.assumed_by,
             statements |->
                {[actions |-> st.actions,
                  resources |-> {Resolve(tpl, st.resources[i], dbId) :
                                    i \in 1..Len(st.resources)}] :
                    st \in UNION {
                        {tpl[pid].props.statements[i] :
                            i \in 1..Len(tpl[pid].props.statements)} :
                        pid \in {q \in OfType(tpl, "Policy") :
                                    tpl[q].props.role = lid}}}]],
     schedules |->
        [lid \in OfType(tpl, "Schedule") |->
            [expression |-> tpl[lid].props.schedule_expression,
             target_arn |-> tpl[lid].props.target.arn,
             role_arn |-> Resolve(tpl, tpl[lid].props.target.role_arn, dbId),
             input |-> ResolveText(tpl, tpl[lid].props.target.input, dbId),
             \* the input as the scheduler reads it
             request |-> JsonParse(ResolveText(tpl, tpl[lid].props.target.input,
                                               dbId))]]]

\* the log of a fresh deployment of the named schedules
NewLog(names) ==
    [stopSeen |-> FALSE,       \* a stop trigger has fired
     runningSince |-> -1,      \* minute of the start that set it running
     today |-> [s \in names |-> 0],  \* schedule -> its firings today
     dayWhole |-> FALSE,       \* deployed before the current day began
     weekNoops |-> {},         \* minutes of this week's stops of a stopped db
     weekWhole |-> FALSE]      \* a stop had fired before this week began

Deploy ==
    /\ phase = "synthesized"
    /\ \E dbId \in DbIdentifiers : deployed' = Provision(Template, dbId)
    /\ log' = NewLog(OfType(Template, "Schedule"))
    /\ \E t \in 0..(MinutesPerWeek - 1) : clock' = t
    /\ dbState' = "running"
    /\ fired' = {}
    /\ phase' = "deployed"
    \* the process that evaluated the declaration ends with the deployment
    /\ pc' = 1
    /\ locals' = {}
    /\ tree' = NoFunction
    /\ order' = <<>>
    /\ tokenMap' = NoFunction
    /\ nextToken' = 1
    /\ synthCount' = 1
    /\ prevTemplate' = <<>>
    /\ UNCHANGED construct_id

-----------------------------------------------------------------------------
(* The scheduler: every minute it invokes the target of each schedule whose *)
(* expression fires, under the role the target names.                       *)

\* the service that assumes the role of a schedule's target
SchedulerService == "scheduler.amazonaws.com"

\* the parameter by which the two actions name the database instance
RequestParameter ==
    << "D", "b", "I", "n", "s", "t", "a", "n", "c", "e",
       "I", "d", "e", "n", "t", "i", "f", "i", "e", "r" >>

StopApi == "stopDBInstance"
StartApi == "startDBInstance"

\* the <<service, action>> a universal target's ARN invokes
TargetAction(arn) == <<arn[7], arn[8]>>

\* action names are matched without regard to case
Lower(name) ==
    CASE name \in {"StopDBInstance", "stopDBInstance"} -> "stopdbinstance"
      [] name \in {"StartDBInstance", "startDBInstance"} -> "startdbinstance"
      [] name \in {"RebootDBInstance", "rebootDBInstance"} -> "rebootdbinstance"
      [] OTHER -> name

ActionGranted(st, act) ==
    \E a \in st.actions : a[1] = act[1] /\ Lower(a[2]) = Lower(act[2])

ResourceGranted(st, arn) ==
    \E r \in st.resources : r = arn \/ r = [text |-> <<"*">>]

\* the members of a parsed input that name the database instance
NamedIdentifiers(parsed) ==
    {parsed.pairs[i][2] : i \in {j \in 1..Len(parsed.pairs) :
                                    parsed.pairs[j][1] = RequestParameter}}

\* whether the input is an object of exactly the parameter the action takes
InputValid(parsed) ==
    /\ parsed.ok
    /\ Len(parsed.pairs) = 1
    /\ parsed.pairs[1][1] = RequestParameter

\* whether the scheduler may perform the schedule's action on the database
\* its input names
Authorized(dep, sch) ==
    \E rid \in DOMAIN dep.roles :
        /\ dep.roles[rid].arn = sch.role_arn
        /\ SchedulerService \in dep.roles[rid].assumed_by
        /\ \E st \in dep.roles[rid].statements :
              /\ ActionGranted(st, TargetAction(sch.target_arn))
              /\ \A id \in NamedIdentifiers(sch.request) :
                    ResourceGranted(st, DbArn(id))

\* the state an action leaves a database instance in
Effect(api, state) ==
    CASE api = StopApi -> "stopped"
      [] api = StartApi -> "running"
      [] OTHER -> state

\* how the invocation of a schedule's target ends
Outcome(dep, sch, state) ==
    CASE ~InputValid(sch.request) -> "invalid"
      [] ~Authorized(dep, sch) -> "denied"
      [] \A lid \in DOMAIN dep.databases :
            dep.databases[lid].identifier \notin NamedIdentifiers(sch.request)
           -> "notfound"
      [] Effect(TargetAction(sch.target_arn)[2], state) = state -> "noop"
      [] OTHER -> "ok"

\* the orders in which the schedules due in one minute may be served
Orderings(S) ==
    {q \in [1..Cardinality(S) -> S] :
        \A i, j \in 1..Cardinality(S) : q[i] = q[j] => i = j}

\* the invocations of the schedules q, one after the other, from the state
\* of the last record of acc
RECURSIVE Invoke(_, _, _, _)
Invoke(dep, q, state, acc) ==
    IF q = <<>> THEN [state |-> state, done |-> acc]
    ELSE LET sch == dep.schedules[Head(q)]
             api == TargetAction(sch.target_arn)[2]
             out == Outcome(dep, sch, state)
             next == IF out = "ok" THEN Effect(api, state) ELSE state
         IN Invoke(dep, Tail(q), next,
                   acc \cup {[schedule |-> Head(q)[2], api |-> api,
                              outcome |-> out]})

Tick ==
    /\ phase = "deployed"
    /\ LET t == (clock + 1) % MinutesPerWeek
           due == {s \in DOMAIN deployed.schedules :
                      CronFires(deployed.schedules[s].expression, t)}
           newDay == TimeOfDay(t) = 0
           newWeek == t = 0
       IN \E q \in Orderings(due) :
            LET r == Invoke(deployed, q, dbState, {})
                stops == {f \in r.done : f.api = StopApi}
                started == \E f \in r.done : f.api = StartApi /\ f.outcome = "ok"
                noop == \E f \in stops : f.outcome = "noop"
            IN /\ clock' = t
               /\ dbState' = r.state
               /\ fired' = {[schedule |-> f.schedule, api |-> f.api,
                             outcome |-> f.outcome,
                             afterStop |-> log.stopSeen,
                             ranFor |->
                                IF f \in stops /\ f.outcome = "ok"
                                      /\ log.runningSince # -1
                                THEN (t - log.runningSince) % MinutesPerWeek
                                ELSE -1] : f \in r.done}
               /\ log' =
                    [stopSeen |-> log.stopSeen \/ stops # {},
                     runningSince |->
                        IF r.state # "running" THEN -1
                        ELSE IF started THEN t ELSE log.runningSince,
                     today |->
                        [s \in DOMAIN log.today |->
                            (IF newDay THEN 0 ELSE log.today[s])
                            + (IF s \in due THEN 1 ELSE 0)],
                     dayWhole |-> log.dayWhole \/ newDay,
                     weekNoops |->
                        (IF newWeek THEN {} ELSE log.weekNoops)
                        \cup (IF noop /\ log.stopSeen THEN {t} ELSE {}),
                     weekWhole |->
                        IF newWeek THEN log.stopSeen ELSE log.weekWhole]
    /\ UNCHANGED <<construct_id, pc, phase, locals, tree, order, tokenMap,
                   nextToken, synthCount, prevTemplate, deployed>>

-----------------------------------------------------------------------------

Next == Step \/ Resynthesize \/ Deploy \/ Tick

Spec == Init /\ [][Next]_vars

-----------------------------------------------------------------------------
(* Properties *)

Constructed == phase = "synthesized"
Deployed == phase = "deployed"

\* the rendered ingress rules of the named security group
TemplateIngress(group) ==
    {Template[lid].props : lid \in
        {l \in OfType(Template, "Ingress") :
            Template[l].props.group = LogicalId(construct_id, group)}}

\* the deployed ingress rules of the named security group
DeployedIngress(group) ==
    {r \in deployed.ingress : r.group = LogicalId(construct_id, group)}

\* C1: once the constructor has run, every ingress rule of RdsSecurityGroup
\* has InstanceSecurityGroup as its source and TCP port 3306 as its port, and
\* none has a CIDR range as its source; the same holds of the deployed rules.
C1_DbIngressOnlyFromCompute ==
    LET good(r) ==
            /\ r.peer = [kind |-> "security_group",
                         of |-> LogicalId(construct_id, "InstanceSecurityGroup")]
            /\ r.port = [protocol |-> "tcp", from |-> 3306, to |-> 3306]
            /\ r.peer.kind # "cidr"
    IN /\ Constructed => \A r \in TemplateIngress("RdsSecurityGroup") : good(r)
       /\ Deployed => \A r \in DeployedIngress("RdsSecurityGroup") : good(r)

C1_Witness ==
    /\ Constructed
    /\ Cardinality(TemplateIngress("RdsSecurityGroup")) = 1
    /\ "RdsIngress" \in DOMAIN tree

\* C2: the scheduler role's policy holds exactly one statement, its actions
\* exactly rds:StartDBInstance and rds:StopDBInstance, its resources exactly
\* the ARN of the database instance the stack declares, never a wildcard.
C2_RoleScopedToDatabase ==
    LET actions == { <<"rds", "StartDBInstance">>, <<"rds", "StopDBInstance">> }
        role == LogicalId(construct_id, "SchedulerRole")
    IN /\ Constructed =>
            LET pols == {p \in OfType(Template, "Policy") :
                            Template[p].props.role = role}
                dbs == OfType(Template, "DatabaseInstance")
            IN /\ Cardinality(pols) = 1
               /\ Cardinality(dbs) = 1
               /\ \A p \in pols : \A db \in dbs :
                     /\ Len(Template[p].props.statements) = 1
                     /\ Template[p].props.statements[1].actions = actions
                     /\ Template[p].props.statements[1].resources =
                           << [fn |-> "GetAtt", id |-> db,
                               attr |-> "instance_arn"] >>
       /\ Deployed =>
            /\ Cardinality(DOMAIN deployed.databases) = 1
            /\ \A db \in DOMAIN deployed.databases :
                  deployed.roles[role].statements =
                     {[actions |-> actions,
                       resources |-> {deployed.databases[db].arn}]}
            /\ \A st \in deployed.roles[role].statements :
                  [text |-> <<"*">>] \notin st.resources

C2_Witness ==
    /\ Deployed
    /\ \E db \in DOMAIN deployed.databases :
          /\ deployed.databases[db].identifier = <<"l", "a", "b", "-", "1">>
          /\ \E st \in
                deployed.roles[LogicalId(construct_id, "SchedulerRole")].statements :
                deployed.databases[db].arn \in st.resources

\* C3: the input of the stop schedule and of the start schedule is the
\* single-key JSON object {"DbInstanceIdentifier": "<identifier>"}, and in
\* both the identifier is that of the one database instance of the stack.
C3_PayloadNamesTheDatabase ==
    LET names == {"StopRdsSchedule", "StartRdsSchedule"}
        open == << "{", "\"",
                   "D", "b", "I", "n", "s", "t", "a", "n", "c", "e",
                   "I", "d", "e", "n", "t", "i", "f", "i", "e", "r",
                   "\"", ":", " ", "\"" >>
        close == << "\"", "}" >>
    IN /\ Constructed =>
            /\ Cardinality(OfType(Template, "DatabaseInstance")) = 1
            /\ \A n \in names : \A db \in OfType(Template, "DatabaseInstance") :
                  Template[LogicalId(construct_id, n)].props.target.input =
                     << [lit |-> open],
                        [fn |-> "Ref", id |-> db, attr |-> "instance_identifier"],
                        [lit |-> close] >>
       /\ Deployed =>
            /\ Cardinality(DOMAIN deployed.databases) = 1
            /\ \A n \in names : \A db \in DOMAIN deployed.databases :
                  LET sch == deployed.schedules[LogicalId(construct_id, n)]
                  IN /\ sch.input = open \o deployed.databases[db].identifier \o close
                     /\ sch.request =
                           [ok |-> TRUE,
                            pairs |-> << <<RequestParameter,
                                           deployed.databases[db].identifier>> >>]

C3_Witness ==
    /\ Deployed
    /\ \E db \in DOMAIN deployed.databases :
          /\ deployed.databases[db].identifier = <<"l", "a", "b", "-", "1">>
          /\ NamedIdentifiers(
                deployed.schedules[LogicalId(construct_id, "StopRdsSchedule")].request)
             = {deployed.databases[db].identifier}
          /\ NamedIdentifiers(
                deployed.schedules[LogicalId(construct_id, "StartRdsSchedule")].request)
             = {deployed.databases[db].identifier}

StopSchedule == LogicalId(construct_id, "StopRdsSchedule")
StartSchedule == LogicalId(construct_id, "StartRdsSchedule")

\* C4: on each of the seven days of a week the stop schedule fires exactly
\* once; the start schedule fires exactly once on each of Monday to Friday
\* and never on Saturday or Sunday.  (Counted over the days that began after
\* the deployment, at their last minute.)
C4_OncePerDayAndPerWeekday ==
    Deployed =>
        LET weekday == DayIndex(clock) \in 0..4
        IN /\ log.dayWhole =>
                /\ log.today[StopSchedule] <= 1
                /\ log.today[StartSchedule] <= (IF weekday THEN 1 ELSE 0)
           /\ log.dayWhole /\ TimeOfDay(clock) = MinutesPerDay - 1 =>
                /\ log.today[StopSchedule] = 1
                /\ log.today[StartSchedule] = (IF weekday THEN 1 ELSE 0)
           /\ ~weekday => \A f \in fired : f.schedule # "StartRdsSchedule"

C4_Witness ==
    /\ Deployed
    /\ log.dayWhole
    /\ DayIndex(clock) = 5
    /\ TimeOfDay(clock) = MinutesPerDay - 1
    /\ log.today[StopSchedule] = 1
    /\ log.today[StartSchedule] = 0

\* C5: the stop schedule fires at 18:00 UTC every day and the start schedule
\* at 08:00 UTC on Monday to Friday, as their comments and descriptions say.
C5_FiresAtDocumentedTime ==
    Deployed =>
        \A f \in fired :
            /\ f.schedule = "StopRdsSchedule" => TimeOfDay(clock) = 18 * 60
            /\ f.schedule = "StartRdsSchedule" =>
                  TimeOfDay(clock) = 8 * 60 /\ DayIndex(clock) \in 0..4

\* C6: evaluating the declaration again with the same scope, construct id
\* and arguments renders the same template as every earlier evaluation.
C6_SameTemplateAgain ==
    Constructed =>
        \A i \in 1..Len(prevTemplate) : prevTemplate[i] = Template

C6_Witness ==
    /\ Constructed
    /\ synthCount = 2
    /\ Len(prevTemplate) = 1
    /\ TokenString(1) \in DOMAIN tokenMap
    /\ tree["StopRdsSchedule"].props.target.role_arn # TokenString(3)

\* the group of the claimed declaration order a construct belongs to
\* (0: a construct of no group, an ingress rule)
Tier(type) ==
    CASE type = "Vpc" -> 1
      [] type = "SecurityGroup" -> 2
      [] type \in {"Instance", "DatabaseInstance"} -> 3
      [] type \in {"Role", "Policy"} -> 4
      [] type = "Schedule" -> 5
      [] type = "Output" -> 6
      [] OTHER -> 0

\* every construct is declared after every construct it refers to, no local
\* is read before it is bound, and no construct is declared twice
DeclaredAfterReferences ==
    /\ phase # "failed"
    /\ DOMAIN tree = {order[i] : i \in 1..Len(order)}
    /\ \A i, j \in 1..Len(order) : order[i] = order[j] => i = j
    /\ \A i \in 1..Len(order) :
          tree[order[i]].deps \subseteq {order[j] : j \in 1..(i - 1)}

C8_SchedulesActWithinTheGrant ==
    Deployed =>
        LET stop == deployed.schedules[StopSchedule]
            start == deployed.schedules[StartSchedule]
            role == deployed.roles[LogicalId(construct_id, "SchedulerRole")]
        IN /\ TargetAction(stop.target_arn) = <<"rds", "stopDBInstance">>
           /\ TargetAction(start.target_arn) = <<"rds", "startDBInstance">>
           /\ stop.role_arn = role.arn /\ start.role_arn = role.arn
           /\ role.assumed_by = {"scheduler.amazonaws.com"}
           /\ \A sch \in {stop, start} :
                 \E st \in role.statements :
                    /\ ActionGranted(st, TargetAction(sch.target_arn))
                    /\ {DbArn(id) : id \in NamedIdentifiers(sch.request)}
                          = st.resources
           /\ \A f \in fired : f.outcome \in {"ok", "noop"}

C8_Witness ==
    /\ Deployed
    /\ \E f \in fired :
          f.schedule = "StopRdsSchedule" /\ f.api = StopApi /\ f.outcome = "ok"

=============================================================================
